---- MODULE Spec2Model ----
(***************************************************************************)
(* Model of src/app.py, the invoice reconciliation script.                 *)
(*                                                                         *)
(* One run of the script is a straight-line pipeline: upload check,        *)
(* seller header detection, seller load, vendor header detection, vendor   *)
(* load (format 1 or format 2), merge, status, summary, export.  st.stop() *)
(* ends the run at any of the checks.  The two uploaded spreadsheets and   *)
(* the threshold are the inputs; they are fixed in Init.                   *)
(*                                                                         *)
(* A spreadsheet cell is text, a number or blank.  Text is a sequence of   *)
(* one-character strings so that lower(), strip() and the substring test   *)
(* of find_header_row are computed rather than assumed.                    *)
(***************************************************************************)
EXTENDS Integers, Sequences, FiniteSets, TLC

(***************************************************************************)
(* Bounds of the model.                                                    *)
(***************************************************************************)
\* most data rows under the header of a ledger
MaxRows == 2
\* most raw rows of a spreadsheet in the header-detection inputs
MaxRawRows == 3
\* largest threshold entered
MaxThreshold == 1

(***************************************************************************)
(* Cells and text.                                                         *)
(***************************************************************************)
Text(s) == [k |-> "text", s |-> s, n |-> 0]
Num(n) == [k |-> "num", s |-> <<>>, n |-> n]
\* an empty cell; pandas reads it as NaN
NaN == [k |-> "blank", s |-> <<>>, n |-> 0]

isna(c) == c.k = "blank"

UpperCase ==
  <<"A","B","C","D","E","F","G","H","I","J","K","L","M",
    "N","O","P","Q","R","S","T","U","V","W","X","Y","Z">>
LowerCase ==
  <<"a","b","c","d","e","f","g","h","i","j","k","l","m",
    "n","o","p","q","r","s","t","u","v","w","x","y","z">>

\* characters in code-point order, for sorting keys
CodeOrder ==
  <<" ", "-", ".", "0","1","2","3","4","5","6","7","8","9", ":">>
  \o UpperCase \o <<"_">> \o LowerCase

OrdOf ==
  [c \in {CodeOrder[i] : i \in 1..Len(CodeOrder)} |->
     CHOOSE i \in 1..Len(CodeOrder) : CodeOrder[i] = c]

Ord(c) == OrdOf[c]

LowerOf ==
  [c \in {UpperCase[i] : i \in 1..26} |->
     LowerCase[CHOOSE i \in 1..26 : UpperCase[i] = c]]

LowerChar(c) == IF c \in DOMAIN LowerOf THEN LowerOf[c] ELSE c

\* str.lower()
lower(s) == [i \in 1..Len(s) |-> LowerChar(s[i])]

RECURSIVE lstrip(_)
lstrip(s) == IF s # <<>> /\ Head(s) = " " THEN lstrip(Tail(s)) ELSE s

RECURSIVE rstrip(_)
rstrip(s) ==
  IF s # <<>> /\ s[Len(s)] = " " THEN rstrip(SubSeq(s, 1, Len(s) - 1)) ELSE s

\* str.strip()
strip(s) == rstrip(lstrip(s))

\* Python's  kw in s  on strings
Contains(kw, s) ==
  \E i \in 1..(Len(s) - Len(kw) + 1) : SubSeq(s, i, i + Len(kw) - 1) = kw

DigitChars == <<"0","1","2","3","4","5","6","7","8","9">>

RECURSIVE Digits(_)
Digits(n) ==
  IF n < 10 THEN <<DigitChars[n + 1]>>
  ELSE Digits(n \div 10) \o <<DigitChars[(n % 10) + 1]>>

\* str() of a cell, as astype(str) gives it
str(c) ==
  IF c.k = "text" THEN c.s
  ELSE IF c.k = "blank" THEN <<"n","a","n">>
  ELSE IF c.n < 0 THEN <<"-">> \o Digits(0 - c.n)
  ELSE Digits(c.n)

IsDigit(ch) == \E i \in 1..10 : DigitChars[i] = ch

DigitValue(ch) == (CHOOSE i \in 1..10 : DigitChars[i] = ch) - 1

RECURSIVE ParseDigits(_)
ParseDigits(s) ==
  IF Len(s) = 1 THEN DigitValue(s[1])
  ELSE 10 * ParseDigits(SubSeq(s, 1, Len(s) - 1)) + DigitValue(s[Len(s)])

\* pd.to_numeric(errors="coerce") of one cell
to_numeric(c) ==
  IF c.k = "num" THEN c
  ELSE IF c.k = "text" /\ c.s # <<>> /\ \A i \in 1..Len(c.s) : IsDigit(c.s[i])
       THEN Num(ParseDigits(c.s))
  ELSE NaN

\* .fillna(0)
fillna0(c) == IF isna(c) THEN Num(0) ELSE c

(***************************************************************************)
(* The literal strings of the script.                                      *)
(***************************************************************************)
kw_no == <<"n","o">>
kw_amount == <<"a","m","o","u","n","t">>
kw_voucher == <<"v","o","u","c","h","e","r">>
kw_vch == <<"v","c","h">>
kw_type == <<"t","y","p","e">>
s_purchase == <<"p","u","r","c","h","a","s","e">>

col_No == <<"N","o",".">>
col_Amount == <<"A","m","o","u","n","t">>
col_VoucherType == <<"V","o","u","c","h","e","r"," ","T","y","p","e">>
col_VoucherNo == <<"V","o","u","c","h","e","r"," ","N","o",".">>
col_GrossTotal == <<"G","r","o","s","s"," ","T","o","t","a","l">>
col_VchType == <<"V","c","h"," ","T","y","p","e">>
col_VchNo == <<"V","c","h"," ","N","o",".">>
col_Debit == <<"D","e","b","i","t">>
col_Credit == <<"C","r","e","d","i","t">>

ErrSellerHeader == "Could not detect header row in Seller file."
ErrSellerColumns == "Seller file must contain 'No.' and 'Amount' columns."
ErrVendorHeader == "Could not detect header row in Vendor file."
ErrVendorFormat == "Vendor file format not recognized."
InfoUpload == "Please upload both files to continue."

(***************************************************************************)
(* find_header_row.  Row indices are 0-based as in the script; None is the *)
(* value returned when no row qualifies.                                   *)
(***************************************************************************)
None == -1

\* all(any(keyword in cell for cell in row) for keyword in required_keywords)
RowHasKeywords(row, required_keywords) ==
  LET cells == [c \in 1..Len(row) |-> lower(str(row[c]))] IN
  \A j \in 1..Len(required_keywords) :
    \E c \in 1..Len(row) : Contains(required_keywords[j], cells[c])

\* find_header_row scanning bottom-up: the lowest qualifying row
RECURSIVE ScanFrom_last(_, _, _)
ScanFrom_last(temp_df, required_keywords, i) ==
  IF i >= Len(temp_df) THEN None
  ELSE LET below == ScanFrom_last(temp_df, required_keywords, i + 1) IN
       IF below # None THEN below
       ELSE IF RowHasKeywords(temp_df[i + 1], required_keywords) THEN i
       ELSE None

RECURSIVE ScanFrom(_, _, _)
ScanFrom(temp_df, required_keywords, i) ==
  IF i >= Len(temp_df) THEN None
  ELSE IF RowHasKeywords(temp_df[i + 1], required_keywords) THEN i
  ELSE ScanFrom(temp_df, required_keywords, i + 1)

find_header_row(file, required_keywords) == ScanFrom(file, required_keywords, 0)

(***************************************************************************)
(* pd.read_excel(file, header=h) followed by columns.str.strip().          *)
(***************************************************************************)
\* column names without columns.str.strip()
ColumnName_nostrip(c, i) ==
  IF c.k = "text" THEN Text(c.s)
  ELSE IF c.k = "blank"
       THEN Text(<<"U","n","n","a","m","e","d",":"," ">> \o Digits(i))
  ELSE NaN

\* the name pandas gives column i (0-based) from its header cell
ColumnName(c, i) ==
  IF c.k = "text" THEN Text(strip(c.s))
  ELSE IF c.k = "blank"
       THEN Text(<<"U","n","n","a","m","e","d",":"," ">> \o Digits(i))
  ELSE NaN

Columns(file, h) ==
  [i \in 1..Len(file[h + 1]) |-> ColumnName(file[h + 1][i], i - 1)]

DataRows(file, h) == SubSeq(file, h + 2, Len(file))

HasColumn(columns, name) == \E i \in 1..Len(columns) : columns[i] = Text(name)

ColumnIndex(columns, name) ==
  CHOOSE i \in 1..Len(columns) :
    /\ columns[i] = Text(name)
    /\ \A j \in 1..(i - 1) : columns[j] # Text(name)

(***************************************************************************)
(* Seller frame, lines 66-78: rename, to_numeric(...).fillna(0), select.   *)
(***************************************************************************)
SellerFrame(columns, rows) ==
  LET ni == ColumnIndex(columns, col_No)
      ai == ColumnIndex(columns, col_Amount)
  IN  [i \in 1..Len(rows) |->
         [Seller_Invoice_No |-> rows[i][ni],
          Seller_Invoice_Amount |-> fillna0(to_numeric(rows[i][ai]))]]

(***************************************************************************)
(* Vendor frame.                                                           *)
(***************************************************************************)
\* the filter as  .str.contains("purchase")
IsPurchase_substring(c) == Contains(s_purchase, lower(str(c)))

\* astype(str).str.lower() == "purchase"
IsPurchase(c) == lower(str(c)) = s_purchase

PurchaseRows(rows, ti) ==
  LET Keep(r) == IsPurchase(r[ti]) IN SelectSeq(rows, Keep)

IsFormat1(columns) ==
  /\ HasColumn(columns, col_VoucherType)
  /\ HasColumn(columns, col_VoucherNo)
  /\ HasColumn(columns, col_GrossTotal)

IsFormat2(columns) ==
  /\ HasColumn(columns, col_VchType)
  /\ HasColumn(columns, col_VchNo)
  /\ HasColumn(columns, col_Debit)
  /\ HasColumn(columns, col_Credit)

\* lines 117-128: one summary row per purchase row, no grouping
Format1Summary(columns, rows) ==
  LET ni == ColumnIndex(columns, col_VoucherNo)
      gi == ColumnIndex(columns, col_GrossTotal)
  IN  [i \in 1..Len(rows) |->
         [Vendor_Invoice_No |-> rows[i][ni],
          Vendor_Invoice_Amount |-> fillna0(to_numeric(rows[i][gi]))]]

\* s < t in Python's string order
RECURSIVE LexLess(_, _)
LexLess(s, t) ==
  IF t = <<>> THEN FALSE
  ELSE IF s = <<>> THEN TRUE
  ELSE IF Head(s) = Head(t) THEN LexLess(Tail(s), Tail(t))
  ELSE Ord(Head(s)) < Ord(Head(t))

\* the text keys of a set of cells in ascending order
RECURSIVE SortKeys(_)
SortKeys(S) ==
  IF S = {} THEN <<>>
  ELSE LET m == CHOOSE x \in S : \A y \in S \ {x} : LexLess(x.s, y.s)
       IN  <<m>> \o SortKeys(S \ {m})

\* sum of column ci over the rows whose column ki holds key
RECURSIVE SumWhere(_, _, _, _)
SumWhere(rows, ki, key, ci) ==
  IF rows = <<>> THEN 0
  ELSE (IF Head(rows)[ki] = key THEN fillna0(to_numeric(Head(rows)[ci])).n ELSE 0)
       + SumWhere(Tail(rows), ki, key, ci)

\* the amount as debit + credit
Format2Summary_sum(columns, rows) ==
  LET ni == ColumnIndex(columns, col_VchNo)
      di == ColumnIndex(columns, col_Debit)
      ci == ColumnIndex(columns, col_Credit)
      keys == SortKeys({rows[i][ni] : i \in 1..Len(rows)} \ {NaN})
  IN  [g \in 1..Len(keys) |->
         [Vendor_Invoice_No |-> keys[g],
          Vendor_Invoice_Amount |->
            Num(SumWhere(rows, ni, keys[g], di) + SumWhere(rows, ni, keys[g], ci))]]

\* lines 144-168: groupby("Vch No.") drops blank keys and sorts the groups
Format2Summary(columns, rows) ==
  LET ni == ColumnIndex(columns, col_VchNo)
      di == ColumnIndex(columns, col_Debit)
      ci == ColumnIndex(columns, col_Credit)
      keys == SortKeys({rows[i][ni] : i \in 1..Len(rows)} \ {NaN})
  IN  [g \in 1..Len(keys) |->
         [Vendor_Invoice_No |-> keys[g],
          Vendor_Invoice_Amount |->
            Num(SumWhere(rows, ni, keys[g], di) - SumWhere(rows, ni, keys[g], ci))]]

(***************************************************************************)
(* Merge, lines 179-190.  pd.merge(how="outer") pairs every seller row     *)
(* with every vendor row of the same key (blank keys pair with blank       *)
(* keys), keeps the unpaired rows of both sides with the other side NaN,   *)
(* and orders the result by key, blank last.                               *)
(***************************************************************************)
Abs(n) == IF n < 0 THEN 0 - n ELSE n

\* the difference as abs(a + b)
Amount_Difference_sum(a, b) ==
  IF isna(a) \/ isna(b) THEN NaN ELSE Num(Abs(a.n + b.n))

\* abs(a - b) on float cells: NaN if either is NaN
Amount_Difference(a, b) ==
  IF isna(a) \/ isna(b) THEN NaN ELSE Num(Abs(a.n - b.n))

MergedRow(sno, samt, vno, vamt) ==
  [Seller_Invoice_No |-> sno, Seller_Invoice_Amount |-> samt,
   Vendor_Invoice_No |-> vno, Vendor_Invoice_Amount |-> vamt,
   Amount_Difference |-> Amount_Difference(samt, vamt)]

RECURSIVE Flatten(_)
Flatten(ss) == IF ss = <<>> THEN <<>> ELSE Head(ss) \o Flatten(Tail(ss))

\* the merged rows of one key
KeyRows(left, right, key) ==
  LET KeepL(r) == r.Seller_Invoice_No = key
      KeepR(r) == r.Vendor_Invoice_No = key
      L == SelectSeq(left, KeepL)
      R == SelectSeq(right, KeepR)
  IN  IF R = <<>>
      THEN [i \in 1..Len(L) |->
              MergedRow(L[i].Seller_Invoice_No, L[i].Seller_Invoice_Amount, NaN, NaN)]
      ELSE IF L = <<>>
      THEN [j \in 1..Len(R) |->
              MergedRow(NaN, NaN, R[j].Vendor_Invoice_No, R[j].Vendor_Invoice_Amount)]
      ELSE Flatten([i \in 1..Len(L) |->
              [j \in 1..Len(R) |->
                 MergedRow(L[i].Seller_Invoice_No, L[i].Seller_Invoice_Amount,
                           R[j].Vendor_Invoice_No, R[j].Vendor_Invoice_Amount)]])

\* the merge with how="left": vendor-only keys are lost
merge_left(left, right) ==
  LET all == {left[i].Seller_Invoice_No : i \in 1..Len(left)}
      keys == SortKeys(all \ {NaN}) \o (IF NaN \in all THEN <<NaN>> ELSE <<>>)
  IN  Flatten([g \in 1..Len(keys) |-> KeyRows(left, right, keys[g])])

merge(left, right) ==
  LET all == {left[i].Seller_Invoice_No : i \in 1..Len(left)}
               \cup {right[j].Vendor_Invoice_No : j \in 1..Len(right)}
      keys == SortKeys(all \ {NaN}) \o (IF NaN \in all THEN <<NaN>> ELSE <<>>)
  IN  Flatten([g \in 1..Len(keys) |-> KeyRows(left, right, keys[g])])

(***************************************************************************)
(* Status, lines 195-207.                                                  *)
(***************************************************************************)
MissingInSeller == "Missing in Seller Books"
MissingInVendor == "Missing in Vendor Books"
Matched == "Matched"
WithinThreshold == "Within Threshold"
AmountMismatch == "Amount Mismatch"

\* the two absence checks in the other order
get_status_vendor_first(row, t) ==
  IF isna(row.Vendor_Invoice_No) THEN MissingInVendor
  ELSE IF isna(row.Seller_Invoice_No) THEN MissingInSeller
  ELSE IF ~isna(row.Amount_Difference) /\ row.Amount_Difference.n = 0 THEN Matched
  ELSE IF ~isna(row.Amount_Difference) /\ row.Amount_Difference.n <= t
       THEN WithinThreshold
  ELSE AmountMismatch

\* comparisons with NaN are False
get_status(row, t) ==
  IF isna(row.Seller_Invoice_No) THEN MissingInSeller
  ELSE IF isna(row.Vendor_Invoice_No) THEN MissingInVendor
  ELSE IF ~isna(row.Amount_Difference) /\ row.Amount_Difference.n = 0 THEN Matched
  ELSE IF ~isna(row.Amount_Difference) /\ row.Amount_Difference.n <= t
       THEN WithinThreshold
  ELSE AmountMismatch

WithStatus(row, t) ==
  [Seller_Invoice_No |-> row.Seller_Invoice_No,
   Seller_Invoice_Amount |-> row.Seller_Invoice_Amount,
   Vendor_Invoice_No |-> row.Vendor_Invoice_No,
   Vendor_Invoice_Amount |-> row.Vendor_Invoice_Amount,
   Amount_Difference |-> row.Amount_Difference,
   Status |-> get_status(row, t)]

(***************************************************************************)
(* Summary, lines 231-237.                                                 *)
(***************************************************************************)
CountStatus(df, s) == Cardinality({i \in 1..Len(df) : df[i].Status = s})

\* Series.sum() skips NaN
RECURSIVE SumDifference(_)
SumDifference(df) ==
  IF df = <<>> THEN 0
  ELSE fillna0(Head(df).Amount_Difference).n + SumDifference(Tail(df))

Metrics(df) ==
  [total_invoices |-> Len(df),
   matched |-> CountStatus(df, Matched),
   within_threshold |-> CountStatus(df, WithinThreshold),
   mismatch |-> CountStatus(df, AmountMismatch),
   missing_seller |-> CountStatus(df, MissingInSeller),
   missing_vendor |-> CountStatus(df, MissingInVendor),
   total_difference |-> SumDifference(df)]

(***************************************************************************)
(* Inputs.  An uploaded spreadsheet is its raw rows, top to bottom.        *)
(***************************************************************************)
id_A == Text(<<"A">>)
id_B == Text(<<"B">>)
id_C == Text(<<"C">>)
x == Text(<<"x">>)
t_Purchase == Text(<<"P","u","r","c","h","a","s","e">>)
t_SalesPurchaseReturn ==
  Text(<<"S","a","l","e","s"," ","P","u","r","c","h","a","s","e"," ",
         "R","e","t","u","r","n">>)
t_Sales == Text(<<"S","a","l","e","s">>)

SellerHeaderRow == <<Text(col_No), Text(col_Amount)>>
SellerPaddedHeaderRow ==
  <<Text(<<" ">> \o col_No), Text(col_Amount \o <<" ">>)>>
\* "Invoice No" / "AMOUNT": holds the keywords, not the exact names
SellerLooseHeaderRow ==
  <<Text(<<"I","n","v","o","i","c","e"," ","N","o">>),
    Text(<<"A","M","O","U","N","T">>)>>
SellerTitleRow == <<Text(<<"S","t","a","t","e","m","e","n","t">>), NaN>>

Format1HeaderRow ==
  <<Text(col_VoucherType), Text(col_VoucherNo), Text(col_GrossTotal),
    Text(<<"D","a","t","e">>)>>
Format2HeaderRow ==
  <<Text(col_VchType), Text(col_VchNo), Text(col_Debit), Text(col_Credit)>>
\* "Voucher type" / "Voucher No" / "GROSS TOTAL": keywords, not exact names
VendorLooseHeaderRow ==
  <<Text(<<"V","o","u","c","h","e","r"," ","t","y","p","e">>),
    Text(<<"V","o","u","c","h","e","r"," ","N","o">>),
    Text(<<"G","R","O","S","S"," ","T","O","T","A","L">>),
    Text(<<"D","a","t","e">>)>>
VendorTitleRow == <<Text(<<"L","e","d","g","e","r">>), NaN, NaN, NaN>>

SeqsUpTo(S, n) == UNION {[1..k -> S] : k \in 0..n}

\* raw rows in any order: with, without and with several header rows
SellerRawPool ==
  {SellerTitleRow, SellerHeaderRow, SellerPaddedHeaderRow, SellerLooseHeaderRow,
   <<id_A, Num(1)>>}
VendorRawPool ==
  {VendorTitleRow, Format1HeaderRow, Format2HeaderRow, VendorLooseHeaderRow,
   <<t_Purchase, id_A, Num(1), Num(0)>>}

\* data rows of a seller ledger: invoice number, amount
SellerRowPool ==
  {<<id_A, Num(1)>>, <<id_A, x>>, <<id_B, Num(1)>>, <<NaN, Num(1)>>}
\* data rows of a format 1 ledger: voucher type, voucher number, gross total
Format1ReconPool ==
  {<<t_Purchase, id_A, Num(0), NaN>>, <<t_Purchase, id_A, Num(2), NaN>>,
   <<t_Purchase, id_C, Num(1), NaN>>, <<t_Purchase, NaN, Num(1), NaN>>}
Format1RowPool ==
  Format1ReconPool \cup
  {<<t_Purchase, id_A, x, NaN>>, <<t_Purchase, id_A, Text(<<"1","2">>), NaN>>,
   <<t_SalesPurchaseReturn, id_A, Num(1), NaN>>, <<t_Sales, id_A, Num(1), NaN>>}
\* data rows of a format 2 ledger: type, number, debit, credit
Format2RowPool ==
  {<<t_Purchase, id_A, Num(1), Num(0)>>, <<t_Purchase, id_A, Num(2), Num(1)>>,
   <<t_Purchase, id_A, x, Num(2)>>, <<t_Purchase, id_A, Num(2), NaN>>,
   <<t_Purchase, id_B, Num(0), Num(2)>>, <<t_Purchase, NaN, Num(1), Num(0)>>,
   <<t_SalesPurchaseReturn, id_A, Num(1), Num(0)>>,
   <<t_Sales, id_A, Num(1), Num(0)>>}

Uploaded(rows) == [uploaded |-> TRUE, rows |-> rows]
NotUploaded == [uploaded |-> FALSE, rows |-> <<>>]

GoodSeller == <<SellerHeaderRow, <<id_A, Num(1)>>>>
GoodVendor == <<Format1HeaderRow, <<t_Purchase, id_A, Num(1), NaN>>>>

Ledgers(header, pool) == {<<header>> \o rows : rows \in SeqsUpTo(pool, MaxRows)}

\* the pairs of uploads the model runs the script on
Inputs ==
  \* header detection: arbitrary raw rows on one side
  {<<Uploaded(s), Uploaded(GoodVendor)>> : s \in SeqsUpTo(SellerRawPool, MaxRawRows)}
  \cup
  {<<Uploaded(GoodSeller), Uploaded(v)>> : v \in SeqsUpTo(VendorRawPool, MaxRawRows)}
  \cup
  \* aggregation: vendor ledgers of both formats
  {<<Uploaded(GoodSeller), Uploaded(v)>> :
     v \in Ledgers(Format1HeaderRow, Format1RowPool)
             \cup Ledgers(Format2HeaderRow, Format2RowPool)}
  \cup
  \* reconciliation: seller ledgers against vendor ledgers
  {<<Uploaded(s), Uploaded(v)>> :
     s \in Ledgers(SellerHeaderRow, SellerRowPool),
     v \in Ledgers(Format1HeaderRow, Format1ReconPool)}
  \cup
  {<<NotUploaded, NotUploaded>>, <<Uploaded(GoodSeller), NotUploaded>>,
   <<NotUploaded, Uploaded(GoodVendor)>>}

(***************************************************************************)
(* State.                                                                  *)
(***************************************************************************)
VARIABLES
  seller_file, vendor_file, threshold,   \* the inputs
  pc,                                    \* the step the script is at
  seller_header, seller_columns, seller_df,
  vendor_header, vendor_columns, vendor_df, vendor_summary,
  recon_df, final_df,
  metrics, output,                       \* what the page shows and exports
  error, info                            \* st.error / st.info message shown

inputs == <<seller_file, vendor_file, threshold>>
seller == <<seller_header, seller_columns, seller_df>>
vendor == <<vendor_header, vendor_columns, vendor_df, vendor_summary>>
report == <<recon_df, final_df, metrics, output>>
vars == <<inputs, pc, seller, vendor, report, error, info>>

\* a Python name not yet bound
Unset == <<>>

Init ==
  /\ \E in \in Inputs : seller_file = in[1] /\ vendor_file = in[2]
  /\ threshold \in 0..MaxThreshold
  /\ pc = "upload"
  /\ seller_header = None /\ seller_columns = Unset /\ seller_df = Unset
  /\ vendor_header = None /\ vendor_columns = Unset /\ vendor_df = Unset
  /\ vendor_summary = Unset
  /\ recon_df = Unset /\ final_df = Unset /\ metrics = Unset /\ output = Unset
  /\ error = "" /\ info = ""

\* lines 32-34
UploadCheck ==
  /\ pc = "upload"
  /\ IF ~seller_file.uploaded \/ ~vendor_file.uploaded
     THEN info' = InfoUpload /\ pc' = "stopped"
     ELSE info' = info /\ pc' = "seller_header"
  /\ UNCHANGED <<inputs, seller, vendor, report, error>>

\* lines 52-56
SellerHeader ==
  /\ pc = "seller_header"
  /\ seller_header' = find_header_row(seller_file.rows, <<kw_no, kw_amount>>)
  /\ IF seller_header' = None
     THEN error' = ErrSellerHeader /\ pc' = "stopped"
     ELSE error' = error /\ pc' = "seller_load"
  /\ UNCHANGED <<inputs, seller_columns, seller_df, vendor, report, info>>

\* lines 58-78
SellerLoad ==
  /\ pc = "seller_load"
  /\ seller_columns' = Columns(seller_file.rows, seller_header)
  /\ IF ~HasColumn(seller_columns', col_No) \/ ~HasColumn(seller_columns', col_Amount)
     THEN /\ error' = ErrSellerColumns /\ pc' = "stopped"
          /\ seller_df' = seller_df
     ELSE /\ error' = error /\ pc' = "vendor_header"
          /\ seller_df' =
               SellerFrame(seller_columns', DataRows(seller_file.rows, seller_header))
  /\ UNCHANGED <<inputs, seller_header, vendor, report, info>>

\* lines 85-99
VendorHeader ==
  /\ pc = "vendor_header"
  /\ LET first == find_header_row(vendor_file.rows, <<kw_voucher, kw_type>>)
     IN  vendor_header' =
           IF first = None
           THEN find_header_row(vendor_file.rows, <<kw_vch, kw_type>>)
           ELSE first
  /\ IF vendor_header' = None
     THEN error' = ErrVendorHeader /\ pc' = "stopped"
     ELSE error' = error /\ pc' = "vendor_load"
  /\ UNCHANGED <<inputs, seller, vendor_columns, vendor_df, vendor_summary,
                 report, info>>

\* the vendor load without st.stop() after the format error
VendorLoad_no_stop ==
  /\ pc = "vendor_load"
  /\ vendor_columns' = Columns(vendor_file.rows, vendor_header)
  /\ LET rows == DataRows(vendor_file.rows, vendor_header) IN
     IF IsFormat1(vendor_columns')
     THEN /\ vendor_df' =
               PurchaseRows(rows, ColumnIndex(vendor_columns', col_VoucherType))
          /\ vendor_summary' = Format1Summary(vendor_columns', vendor_df')
          /\ error' = error /\ pc' = "merge"
     ELSE IF IsFormat2(vendor_columns')
     THEN /\ vendor_df' =
               PurchaseRows(rows, ColumnIndex(vendor_columns', col_VchType))
          /\ vendor_summary' = Format2Summary(vendor_columns', vendor_df')
          /\ error' = error /\ pc' = "merge"
     ELSE /\ vendor_df' = rows /\ vendor_summary' = <<>>
          /\ error' = ErrVendorFormat /\ pc' = "merge"
  /\ UNCHANGED <<inputs, seller, vendor_header, report, info>>

\* lines 101-173
VendorLoad ==
  /\ pc = "vendor_load"
  /\ vendor_columns' = Columns(vendor_file.rows, vendor_header)
  /\ LET rows == DataRows(vendor_file.rows, vendor_header) IN
     IF IsFormat1(vendor_columns')
     THEN /\ vendor_df' =
               PurchaseRows(rows, ColumnIndex(vendor_columns', col_VoucherType))
          /\ vendor_summary' = Format1Summary(vendor_columns', vendor_df')
          /\ error' = error /\ pc' = "merge"
     ELSE IF IsFormat2(vendor_columns')
     THEN /\ vendor_df' =
               PurchaseRows(rows, ColumnIndex(vendor_columns', col_VchType))
          /\ vendor_summary' = Format2Summary(vendor_columns', vendor_df')
          /\ error' = error /\ pc' = "merge"
     ELSE /\ vendor_df' = rows /\ vendor_summary' = vendor_summary
          /\ error' = ErrVendorFormat /\ pc' = "stopped"
  /\ UNCHANGED <<inputs, seller, vendor_header, report, info>>

\* lines 179-190
Merge ==
  /\ pc = "merge"
  /\ recon_df' = merge(seller_df, vendor_summary)
  /\ pc' = "status"
  /\ UNCHANGED <<inputs, seller, vendor, final_df, metrics, output, error, info>>

\* lines 195-223
Status ==
  /\ pc = "status"
  /\ recon_df' = [i \in 1..Len(recon_df) |-> WithStatus(recon_df[i], threshold)]
  /\ final_df' = recon_df'
  /\ pc' = "summary"
  /\ UNCHANGED <<inputs, seller, vendor, metrics, output, error, info>>

\* lines 228-248
Summary ==
  /\ pc = "summary"
  /\ metrics' = Metrics(final_df)
  /\ pc' = "export"
  /\ UNCHANGED <<inputs, seller, vendor, recon_df, final_df, output, error, info>>

\* lines 253-269
Export ==
  /\ pc = "export"
  /\ output' = final_df
  /\ pc' = "done"
  /\ UNCHANGED <<inputs, seller, vendor, recon_df, final_df, metrics, error, info>>

Next ==
  \/ UploadCheck
  \/ SellerHeader
  \/ SellerLoad
  \/ VendorHeader
  \/ VendorLoad
  \/ Merge
  \/ Status
  \/ Summary
  \/ Export

Spec == Init /\ [][Next]_vars

(***************************************************************************)
(* Where a run is.                                                         *)
(***************************************************************************)
SellerFailed == pc = "stopped" /\ error \in {ErrSellerHeader, ErrSellerColumns}
VendorFailed == pc = "stopped" /\ error \in {ErrVendorHeader, ErrVendorFormat}

\* seller_df holds the seller frame of lines 75-78
SellerLoaded ==
  \/ pc \in {"vendor_header", "vendor_load", "merge", "status", "summary",
             "export", "done"}
  \/ VendorFailed
\* vendor_df and vendor_summary hold the vendor frames
VendorLoaded == pc \in {"merge", "status", "summary", "export", "done"}
\* recon_df holds the merged frame
Merged == pc \in {"status", "summary", "export", "done"}
\* final_df holds the report
Reported == pc \in {"summary", "export", "done"}

\* the run is over: the page is complete or st.stop() was called
Ended == pc \in {"done", "stopped"}

\* plain value of an amount cell, non-numeric counted as 0
Value(c) == IF isna(to_numeric(c)) THEN 0 ELSE to_numeric(c).n

\* sum of f over a finite set of indices
RECURSIVE SumIdx(_, _)
SumIdx(I, f) ==
  IF I = {} THEN 0
  ELSE LET i == CHOOSE j \in I : TRUE IN f[i] + SumIdx(I \ {i}, f)

SellerIds == {seller_df[i].Seller_Invoice_No : i \in 1..Len(seller_df)} \ {NaN}
VendorIds ==
  {vendor_summary[i].Vendor_Invoice_No : i \in 1..Len(vendor_summary)} \ {NaN}

NumericStatuses == {Matched, WithinThreshold, AmountMismatch}
Statuses == NumericStatuses \cup {MissingInSeller, MissingInVendor}

(***************************************************************************)
(* C1.  Every report row has one of the five statuses, the first that      *)
(* applies of: seller identifier absent, vendor identifier absent,         *)
(* difference 0, difference <= threshold, otherwise mismatch; a row that   *)
(* lacks a side never has a numeric status.                                *)
(***************************************************************************)
C1_StatusPriority ==
  Reported =>
    \A i \in 1..Len(final_df) :
      LET r == final_df[i]
          d == r.Amount_Difference
          both == ~isna(r.Seller_Invoice_No) /\ ~isna(r.Vendor_Invoice_No)
      IN  /\ r.Status \in Statuses
          /\ isna(r.Seller_Invoice_No) => r.Status = MissingInSeller
          /\ ~isna(r.Seller_Invoice_No) /\ isna(r.Vendor_Invoice_No)
               => r.Status = MissingInVendor
          /\ both /\ d = Num(0) => r.Status = Matched
          /\ both /\ d.k = "num" /\ d.n # 0 /\ d.n <= threshold
               => r.Status = WithinThreshold
          /\ both /\ (isna(d) \/ d.n > threshold) => r.Status = AmountMismatch
          /\ isna(r.Seller_Invoice_Amount) \/ isna(r.Vendor_Invoice_Amount)
               => r.Status \notin NumericStatuses

\* a report with a row missing on each side and a row within the threshold
C1_Witness ==
  /\ pc = "done"
  /\ \E i, j, l \in 1..Len(final_df) :
       /\ final_df[i].Status = MissingInSeller
       /\ final_df[j].Status = MissingInVendor
       /\ final_df[l].Status = WithinThreshold

(***************************************************************************)
(* C2.  Matched rows have difference 0, WithinThreshold rows have          *)
(* 0 < difference <= threshold, AmountMismatch rows have difference >      *)
(* threshold, the difference being |seller amount - vendor amount|.        *)
(***************************************************************************)
C2_StatusBounds ==
  Reported =>
    \A i \in 1..Len(final_df) :
      LET r == final_df[i]
          sa == r.Seller_Invoice_Amount
          va == r.Vendor_Invoice_Amount
          diff == IF sa.n >= va.n THEN sa.n - va.n ELSE va.n - sa.n
      IN  r.Status \in NumericStatuses =>
            /\ sa.k = "num" /\ va.k = "num"
            /\ r.Status = Matched => diff = 0
            /\ r.Status = WithinThreshold => 0 < diff /\ diff <= threshold
            /\ r.Status = AmountMismatch => diff > threshold

\* a report with a row within the threshold whose vendor amount is the larger
C2_Witness ==
  /\ pc = "done"
  /\ \E i \in 1..Len(final_df) :
       /\ final_df[i].Status = WithinThreshold
       /\ final_df[i].Seller_Invoice_Amount.n < final_df[i].Vendor_Invoice_Amount.n
  /\ \E i \in 1..Len(final_df) : final_df[i].Status = AmountMismatch
  /\ \E i \in 1..Len(final_df) : final_df[i].Status = Matched

(***************************************************************************)
(* C3.  The report is the full outer join of the two summaries on equal    *)
(* identifiers: every identifier of either summary is in the report, a     *)
(* row has both identifiers exactly when its identifier is in both         *)
(* summaries, and an identifier on one side only gives rows whose other    *)
(* side is absent.  Each side of a row is an entry of that side's summary. *)
(***************************************************************************)
C3_FullOuterJoin ==
  Merged =>
    /\ \A k \in SellerIds :
         \E i \in 1..Len(recon_df) : recon_df[i].Seller_Invoice_No = k
    /\ \A k \in VendorIds :
         \E i \in 1..Len(recon_df) : recon_df[i].Vendor_Invoice_No = k
    /\ \A i \in 1..Len(recon_df) :
         LET r == recon_df[i]
             sno == r.Seller_Invoice_No
             vno == r.Vendor_Invoice_No
         IN  /\ ~isna(sno) /\ ~isna(vno) => sno = vno /\ sno \in SellerIds \cap VendorIds
             /\ ~isna(sno) /\ sno \in VendorIds => vno = sno
             /\ ~isna(vno) /\ vno \in SellerIds => sno = vno
             /\ ~isna(sno) /\ sno \notin VendorIds
                  => isna(vno) /\ isna(r.Vendor_Invoice_Amount)
             /\ ~isna(vno) /\ vno \notin SellerIds
                  => isna(sno) /\ isna(r.Seller_Invoice_Amount)
             /\ ~isna(sno) =>
                  \E j \in 1..Len(seller_df) :
                    /\ seller_df[j].Seller_Invoice_No = sno
                    /\ seller_df[j].Seller_Invoice_Amount = r.Seller_Invoice_Amount
             /\ ~isna(vno) =>
                  \E j \in 1..Len(vendor_summary) :
                    /\ vendor_summary[j].Vendor_Invoice_No = vno
                    /\ vendor_summary[j].Vendor_Invoice_Amount = r.Vendor_Invoice_Amount

\* a report with a row on both sides, a seller-only row and a vendor-only row
C3_Witness ==
  /\ pc = "done"
  /\ \E i, j, l \in 1..Len(recon_df) :
       /\ ~isna(recon_df[i].Seller_Invoice_No) /\ ~isna(recon_df[i].Vendor_Invoice_No)
       /\ ~isna(recon_df[j].Seller_Invoice_No) /\ isna(recon_df[j].Vendor_Invoice_No)
       /\ isna(recon_df[l].Seller_Invoice_No) /\ ~isna(recon_df[l].Vendor_Invoice_No)

(***************************************************************************)
(* The uploaded files as the claims read them.                             *)
(***************************************************************************)
\* every keyword is, in lower case, inside some cell of the row
Qualifies(row, keywords) ==
  LET cells == [c \in 1..Len(row) |-> lower(str(row[c]))] IN
  \A kw \in keywords : \E c \in 1..Len(row) : Contains(kw, cells[c])

\* h is the topmost qualifying row of rows, or None when there is none
IsFirstQualifying(h, rows, keywords) ==
  IF \E i \in 1..Len(rows) : Qualifies(rows[i], keywords)
  THEN /\ h \in 0..(Len(rows) - 1)
       /\ Qualifies(rows[h + 1], keywords)
       /\ \A j \in 1..h : ~Qualifies(rows[j], keywords)
  ELSE h = None

SellerKeywords == {kw_no, kw_amount}

SellerData == DataRows(seller_file.rows, seller_header)
VendorData == DataRows(vendor_file.rows, vendor_header)

VendorIsFormat2 == ~IsFormat1(vendor_columns) /\ IsFormat2(vendor_columns)
VendorTypeIndex ==
  ColumnIndex(vendor_columns,
              IF IsFormat1(vendor_columns) THEN col_VoucherType ELSE col_VchType)
VendorNoIndex ==
  ColumnIndex(vendor_columns,
              IF IsFormat1(vendor_columns) THEN col_VoucherNo ELSE col_VchNo)

\* indices of the data rows whose voucher type is "purchase" in any case
ExactPurchase(data, ti) ==
  {i \in 1..Len(data) : lower(str(data[i][ti])) = s_purchase}
\* indices of the data rows whose voucher type contains "purchase"
SubstringPurchase(data, ti) ==
  {i \in 1..Len(data) : Contains(s_purchase, lower(str(data[i][ti])))}

\* the rows of rows at the indices I, in order
RowsAt(rows, I) ==
  LET F[i \in 0..Len(rows)] ==
        IF i = 0 THEN <<>>
        ELSE IF i \in I THEN F[i - 1] \o <<rows[i]>> ELSE F[i - 1]
  IN  F[Len(rows)]

(***************************************************************************)
(* C4 as written.  The purchase filter keeps every row whose voucher type  *)
(* contains "purchase" in any case, "Sales Purchase Return" included.      *)
(***************************************************************************)
C4_SubstringFilter ==
  pc = "done" =>
    vendor_df = RowsAt(VendorData, SubstringPurchase(VendorData, VendorTypeIndex))

(***************************************************************************)
(* C4 as amended.  The purchase filter keeps exactly the rows whose        *)
(* voucher type, in lower case, equals "purchase"; a "Sales Purchase       *)
(* Return" row is dropped and adds to no invoice's amount.                 *)
(***************************************************************************)
C4_ExactFilter ==
  pc = "done" =>
    LET data == VendorData
        ni == VendorNoIndex
        kept == ExactPurchase(data, VendorTypeIndex)
    IN  /\ vendor_df = RowsAt(data, kept)
        /\ \A i \in 1..Len(vendor_summary) :
             \E j \in kept : data[j][ni] = vendor_summary[i].Vendor_Invoice_No

\* a ledger with a "Sales Purchase Return" row that was dropped and a
\* "Purchase" row that was kept
C4_Witness ==
  /\ pc = "done"
  /\ \E i \in 1..Len(VendorData) : VendorData[i][VendorTypeIndex] = t_SalesPurchaseReturn
  /\ Len(vendor_df) = 1
  /\ vendor_df[1][VendorTypeIndex] = t_Purchase

(***************************************************************************)
(* C5.  On each side the summary has exactly one entry per distinct        *)
(* invoice identifier, and its amount is the sum of the amounts of the     *)
(* retained rows with that identifier.                                     *)
(***************************************************************************)
C5_OneEntryPerIdentifier ==
  /\ SellerLoaded =>
       LET ni == ColumnIndex(seller_columns, col_No)
           ai == ColumnIndex(seller_columns, col_Amount)
           amount == [i \in 1..Len(SellerData) |-> Value(SellerData[i][ai])]
       IN  \A k \in SellerIds :
             /\ Cardinality({i \in 1..Len(seller_df) :
                               seller_df[i].Seller_Invoice_No = k}) = 1
             /\ \A i \in 1..Len(seller_df) :
                  seller_df[i].Seller_Invoice_No = k =>
                    seller_df[i].Seller_Invoice_Amount =
                      Num(SumIdx({j \in 1..Len(SellerData) : SellerData[j][ni] = k},
                                 amount))
  /\ VendorLoaded /\ IsFormat1(vendor_columns) =>
       LET gi == ColumnIndex(vendor_columns, col_GrossTotal)
           amount == [i \in 1..Len(VendorData) |-> Value(VendorData[i][gi])]
           kept == ExactPurchase(VendorData, VendorTypeIndex)
       IN  \A k \in VendorIds :
             /\ Cardinality({i \in 1..Len(vendor_summary) :
                               vendor_summary[i].Vendor_Invoice_No = k}) = 1
             /\ \A i \in 1..Len(vendor_summary) :
                  vendor_summary[i].Vendor_Invoice_No = k =>
                    vendor_summary[i].Vendor_Invoice_Amount =
                      Num(SumIdx({j \in kept : VendorData[j][VendorNoIndex] = k},
                                 amount))
  /\ VendorLoaded /\ VendorIsFormat2 =>
       \A k \in VendorIds :
         Cardinality({i \in 1..Len(vendor_summary) :
                        vendor_summary[i].Vendor_Invoice_No = k}) = 1

(***************************************************************************)
(* C6.  In debit/credit mode the vendor summary has, for each invoice      *)
(* identifier of a purchase row, one entry whose amount is the sum of the  *)
(* debits minus the sum of the credits of the purchase rows with that      *)
(* identifier, a non-numeric cell counting as 0.                           *)
(***************************************************************************)
C6_DebitMinusCredit ==
  pc = "done" /\ VendorIsFormat2 =>
    LET data == VendorData
        ni == VendorNoIndex
        di == ColumnIndex(vendor_columns, col_Debit)
        ci == ColumnIndex(vendor_columns, col_Credit)
        debit == [i \in 1..Len(data) |-> Value(data[i][di])]
        credit == [i \in 1..Len(data) |-> Value(data[i][ci])]
        purchases == ExactPurchase(data, VendorTypeIndex)
        ids == {data[i][ni] : i \in purchases} \ {NaN}
        of(k) == {i \in purchases : data[i][ni] = k}
    IN  /\ VendorIds = ids
        /\ \A k \in ids :
             /\ Cardinality({i \in 1..Len(vendor_summary) :
                               vendor_summary[i].Vendor_Invoice_No = k}) = 1
             /\ \A i \in 1..Len(vendor_summary) :
                  vendor_summary[i].Vendor_Invoice_No = k =>
                    vendor_summary[i].Vendor_Invoice_Amount =
                      Num(SumIdx(of(k), debit) - SumIdx(of(k), credit))

\* two purchase rows of one invoice, debit 2 credit 1 and debit x credit 2,
\* the second with a non-numeric debit, summed to 2 - 3 = -1
C6_Witness ==
  /\ pc = "done"
  /\ VendorIsFormat2
  /\ vendor_df = << <<t_Purchase, id_A, Num(2), Num(1)>>,
                    <<t_Purchase, id_A, x, Num(2)>> >>
  /\ vendor_summary = <<[Vendor_Invoice_No |-> id_A, Vendor_Invoice_Amount |-> Num(-1)]>>

(***************************************************************************)
(* C7.  When header detection fails for either file, a required seller     *)
(* column is missing or the vendor layout is not recognised, the run ends  *)
(* in an error that names the failing file; no merge, table, counter or    *)
(* export is produced and no later step runs.                              *)
(***************************************************************************)
C7_ErrorsAreTerminal ==
  LET started == info = "" /\ pc # "upload"
      sellerHeaderFails ==
        \A i \in 1..Len(seller_file.rows) : ~Qualifies(seller_file.rows[i], SellerKeywords)
      sellerHeaderDone == started /\ pc # "seller_header"
      sellerColumnsFail ==
        ~(Text(col_No) \in {seller_columns[i] : i \in 1..Len(seller_columns)}
          /\ Text(col_Amount) \in {seller_columns[i] : i \in 1..Len(seller_columns)})
      sellerLoadDone == sellerHeaderDone /\ ~sellerHeaderFails /\ pc # "seller_load"
      vendorHeaderFails ==
        \A i \in 1..Len(vendor_file.rows) :
          /\ ~Qualifies(vendor_file.rows[i], {kw_voucher, kw_type})
          /\ ~Qualifies(vendor_file.rows[i], {kw_vch, kw_type})
      vendorHeaderDone == sellerLoadDone /\ ~sellerColumnsFail /\ pc # "vendor_header"
      vendorFormatFails == ~IsFormat1(vendor_columns) /\ ~IsFormat2(vendor_columns)
      vendorLoadDone == vendorHeaderDone /\ ~vendorHeaderFails /\ pc # "vendor_load"
  IN  /\ error # "" =>
           /\ pc = "stopped"
           /\ recon_df = Unset /\ final_df = Unset
           /\ metrics = Unset /\ output = Unset
      /\ pc \in {"merge", "status", "summary", "export", "done"} => error = ""
      /\ Ended =>
           /\ sellerHeaderDone => (sellerHeaderFails <=> error = ErrSellerHeader)
           /\ sellerLoadDone => (sellerColumnsFail <=> error = ErrSellerColumns)
           /\ vendorHeaderDone => (vendorHeaderFails <=> error = ErrVendorHeader)
           /\ vendorLoadDone => (vendorFormatFails <=> error = ErrVendorFormat)
           /\ pc = "done" <=> vendorLoadDone /\ ~vendorFormatFails

\* a run stopped at the vendor file after the seller file was loaded
C7_Witness ==
  /\ pc = "stopped"
  /\ error = ErrVendorFormat
  /\ Len(seller_df) > 0

(***************************************************************************)
(* C8.  find_header_row returns the topmost row in which every required    *)
(* keyword is, case-insensitively, inside some cell, and returns None      *)
(* exactly when no row is such a row.                                      *)
(***************************************************************************)
C8_FirstQualifyingRow ==
  /\ Ended /\ info = "" =>
       IsFirstQualifying(seller_header, seller_file.rows, SellerKeywords)
  /\ Ended /\ SellerLoaded =>
       IF \E i \in 1..Len(vendor_file.rows) :
            Qualifies(vendor_file.rows[i], {kw_voucher, kw_type})
       THEN IsFirstQualifying(vendor_header, vendor_file.rows, {kw_voucher, kw_type})
       ELSE IsFirstQualifying(vendor_header, vendor_file.rows, {kw_vch, kw_type})

\* a seller file whose header is below a title row and above another
\* qualifying row
C8_Witness ==
  /\ pc = "done"
  /\ seller_header = 1
  /\ Len(seller_file.rows) = 3
  /\ Qualifies(seller_file.rows[3], SellerKeywords)

\* the stripped text names of a header row
StrippedNames(row) == {strip(row[c].s) : c \in {d \in 1..Len(row) : row[d].k = "text"}}

\* the first column of a header row whose stripped name is name
FirstNamed(row, name) ==
  CHOOSE c \in 1..Len(row) :
    /\ row[c].k = "text" /\ strip(row[c].s) = name
    /\ \A d \in 1..(c - 1) : ~(row[d].k = "text" /\ strip(row[d].s) = name)

\* some column name of the header row contains the keyword in any case
SomeNameHas(row, kw) ==
  \E c \in 1..Len(row) : row[c].k = "text" /\ Contains(kw, lower(row[c].s))

SellerHeaderCells == seller_file.rows[seller_header + 1]
VendorHeaderCells == vendor_file.rows[vendor_header + 1]

\* the run is over, the seller header row was selected and the column
\* check has run
SellerColumnsChecked == Ended /\ info = "" /\ error # ErrSellerHeader
\* the run is over, the vendor header row was selected and the format
\* check has run
VendorFormatChecked == pc = "done" \/ (pc = "stopped" /\ error = ErrVendorFormat)

(***************************************************************************)
(* C9 as written.  Column roles are resolved by case-insensitive substring *)
(* match: once the header row is accepted, resolution fails only when no   *)
(* column name contains the keyword of a required role.                    *)
(***************************************************************************)
C9_SubstringResolution ==
  /\ SellerColumnsChecked /\ error = ErrSellerColumns =>
       ~(SomeNameHas(SellerHeaderCells, kw_no) /\ SomeNameHas(SellerHeaderCells, kw_amount))
  /\ VendorFormatChecked /\ error = ErrVendorFormat =>
       ~(/\ SomeNameHas(VendorHeaderCells, kw_type)
         /\ SomeNameHas(VendorHeaderCells, kw_no)
         /\ SomeNameHas(VendorHeaderCells, <<"t","o","t","a","l">>))

(***************************************************************************)
(* C9 as amended.  Column roles are resolved by equality of the stripped   *)
(* column name with a fixed name, the first such column winning: the       *)
(* seller needs "No." and "Amount", the vendor "Voucher Type", "Voucher    *)
(* No." and "Gross Total" or else "Vch Type", "Vch No.", "Debit" and       *)
(* "Credit".  A file whose accepted header row lacks one of the exact      *)
(* names is rejected, also when its names contain the keywords.            *)
(***************************************************************************)
C9_ExactResolution ==
  /\ SellerColumnsChecked =>
       LET names == StrippedNames(SellerHeaderCells) IN
       /\ error = ErrSellerColumns <=> ~({col_No, col_Amount} \subseteq names)
       /\ error # ErrSellerColumns =>
            /\ Len(seller_df) = Len(SellerData)
            /\ \A i \in 1..Len(seller_df) :
                 /\ seller_df[i].Seller_Invoice_No =
                      SellerData[i][FirstNamed(SellerHeaderCells, col_No)]
                 /\ seller_df[i].Seller_Invoice_Amount =
                      Num(Value(SellerData[i][FirstNamed(SellerHeaderCells, col_Amount)]))
  /\ VendorFormatChecked =>
       LET names == StrippedNames(VendorHeaderCells) IN
       error = ErrVendorFormat <=>
         ~(\/ {col_VoucherType, col_VoucherNo, col_GrossTotal} \subseteq names
           \/ {col_VchType, col_VchNo, col_Debit, col_Credit} \subseteq names)

\* a seller file rejected although its header row "Invoice No" / "AMOUNT"
\* was accepted and holds the keywords
C9_Witness ==
  /\ pc = "stopped"
  /\ error = ErrSellerColumns
  /\ SellerHeaderCells = SellerLooseHeaderRow

(***************************************************************************)
(* C10.  A MissingInSeller row comes from a vendor entry (vendor           *)
(* identifier and amount present) whose identifier no seller row has, a    *)
(* MissingInVendor row has its seller identifier present, and no row that  *)
(* comes from the seller file is MissingInSeller, a seller row with a      *)
(* blank invoice number included.                                          *)
(***************************************************************************)
C10_MissingRowsOrigin ==
  Reported =>
    \A i \in 1..Len(final_df) :
      LET r == final_df[i] IN
      /\ r.Status = MissingInSeller =>
           /\ ~isna(r.Vendor_Invoice_No) /\ ~isna(r.Vendor_Invoice_Amount)
           /\ r.Vendor_Invoice_No \notin SellerIds
      /\ r.Status = MissingInVendor => ~isna(r.Seller_Invoice_No)
      /\ ~isna(r.Seller_Invoice_Amount) => r.Status # MissingInSeller

====
